---- MODULE Spec2Model ----
(***************************************************************************)
(* Scan orchestration of the Well-Architected assessment backend:         *)
(* the single-table store (app/db/dynamodb.py), the scan and credential   *)
(* repositories, the region scanner, the multi-agent assessment and the   *)
(* background task perform_scan with the HTTP routes that surround it.    *)
(***************************************************************************)
EXTENDS Integers, Sequences, FiniteSets, TLC

(* ------------------------------ bounds -------------------------------- *)
\* number of scans created in one behaviour
MaxScans == 1
\* number of credentials created in one behaviour
MaxCreds == 1
\* longest caller-supplied or enumerated region list
MaxRegions == 3
\* number of external calls that fail in one behaviour
MaxFaults == 1
\* number of scans created in one behaviour of the two-run specification
MaxRuns == 2
\* number of signup requests in one behaviour of the signup specification
MaxSignups == 2

(* ------------------------- program constants -------------------------- *)
ScanShare == 80
AssessProgress == 85
DoneProgress == 100
HttpNotFound == 404
HttpBadRequest == 400
HttpOk == 200
HttpCreated == 201
HttpNoContent == 204
HttpServerError == 500

Users == {"u1", "u2"}
\* the values uuid4 hands out, in the order it hands them out
ScanIds == <<"s1", "s2", "s3">>
CredIds == <<"c1", "c2">>
RegionNames == {"us-east-1", "ap-south-1"}
HomeRegion == "us-east-1"
DefaultRegions == <<"us-east-1", "ap-south-1">>
Categories == {"ec2", "s3", "rds", "lambda", "vpc", "iam", "cloudwatch"}
GlobalCategories == {"s3", "iam"}
Pillars == <<"operational_excellence", "security", "reliability",
             "performance_efficiency", "cost_optimization", "sustainability">>

\* Python's None where an item (a dict) is expected; an empty dict is falsy too
NoItem == [k \in {} |-> 0]
\* Python's None as an attribute value
NoneValue == "None"

VARIABLES
    table,      \* the DynamoDB table: primary key <<PK, SK>> -> item
    issued,     \* uuid4 values handed out so far
    now,        \* datetime.utcnow(), as a logical clock
    task,       \* per scan id: the background task perform_scan and its locals
                \* (per signup request: its handler, in the signup specification)
    faults      \* external calls that may still fail in this behaviour

vars == <<table, issued, now, task, faults>>

(* ------------------------------ helpers ------------------------------- *)
Range(f) == {f[i] : i \in DOMAIN f}

RECURSIVE SeqsUpTo(_, _)
SeqsUpTo(S, n) ==
    IF n = 0 THEN {<<>>}
    ELSE LET shorter == SeqsUpTo(S, n - 1)
         IN shorter \cup {Append(q, x) : q \in {p \in shorter : Len(p) = n - 1}, x \in S}

NoDup(q) == \A i, j \in DOMAIN q : i # j => q[i] # q[j]

\* a Python dict with insertion order: a sequence of <<key, value>> pairs
DictKeys(d) == [i \in DOMAIN d |-> d[i][1]]
DictHas(d, k) == \E i \in DOMAIN d : d[i][1] = k
DictSet(d, k, v) ==
    IF DictHas(d, k)
    THEN [i \in DOMAIN d |-> IF d[i][1] = k THEN <<k, v>> ELSE d[i]]
    ELSE Append(d, <<k, v>>)

(* ------------------------- app/db/dynamodb.py ------------------------- *)
UserPK(u) == <<"USER", u>>
ScanSK(s) == <<"SCAN", s>>
CredSK(c) == <<"CRED", c>>

put_item(t, item) ==
    LET key == <<item.PK, item.SK>>
    IN [k \in DOMAIN t \cup {key} |-> IF k = key THEN item ELSE t[k]]

\* variant: the item is replaced by its key and the named attributes
update_item_replaces(t, pk, sk, updates) ==
    LET key == <<pk, sk>>
    IN [k \in DOMAIN t \cup {key} |->
           IF k = key THEN updates @@ [PK |-> pk, SK |-> sk] ELSE t[k]]

\* UpdateItem with a SET expression: named attributes are written, the others are
\* kept, and an item that does not exist is created with its key and the named
\* attributes
update_item(t, pk, sk, updates) ==
    LET key == <<pk, sk>>
        old == IF key \in DOMAIN t THEN t[key] ELSE [PK |-> pk, SK |-> sk]
    IN [k \in DOMAIN t \cup {key} |-> IF k = key THEN updates @@ old ELSE t[k]]

delete_item(t, pk, sk) == [k \in DOMAIN t \ {<<pk, sk>>} |-> t[k]]

\* the keys of the items the index GSI1 holds under partition gsi_pk
query_gsi(t, gsi_pk) ==
    {k \in DOMAIN t : "GSI1PK" \in DOMAIN t[k] /\ t[k].GSI1PK = gsi_pk}

query_by_pk(t, pk, sk_prefix) ==
    {k \in DOMAIN t : k[1] = pk /\ k[2][1] = sk_prefix}

\* outcomes of one write call of the client: applied, ClientError (logged, returns
\* False), or another exception, which propagates
WriteOutcomes == {"ok", "false", "raise"}
StoreErrorText == "Could not connect to the endpoint URL"

(* ------------------- app/repositories, app/core/security --------------- *)
ScanName == "scan"
CredName == "cred"
AccessKey == "AKIA"
SecretKey == "secret"

\* Fernet: the token carries the plaintext, readable only through decrypt
encrypt_credential(plain) == <<"fernet", plain>>
decrypt_credential(token) == token[2]
\* str(InvalidToken()): the exception carries no message
InvalidTokenText == ""

create_credential_item(user_id, cred_id, ts) ==
    [PK |-> UserPK(user_id), SK |-> CredSK(cred_id),
     GSI1PK |-> CredSK(cred_id), GSI1SK |-> UserPK(user_id),
     credential_id |-> cred_id, user_id |-> user_id, credential_name |-> CredName,
     encrypted_access_key |-> encrypt_credential(AccessKey),
     encrypted_secret_key |-> encrypt_credential(SecretKey),
     is_active |-> TRUE, created_at |-> ts, updated_at |-> ts]

get_credential_by_id(t, cred_id) ==
    LET items == query_gsi(t, CredSK(cred_id))
    IN IF items = {} THEN NoItem ELSE t[CHOOSE k \in items : TRUE]

create_scan_item(user_id, credential_id, scan_name, scan_id, ts) ==
    [PK |-> UserPK(user_id), SK |-> ScanSK(scan_id),
     GSI1PK |-> ScanSK(scan_id), GSI1SK |-> <<"TIMESTAMP", ts>>,
     scan_id |-> scan_id, user_id |-> user_id, credential_id |-> credential_id,
     scan_name |-> scan_name, status |-> "pending", progress |-> 0,
     regions_scanned |-> <<>>, results |-> <<>>, ai_recommendations |-> <<>>,
     error_message |-> "", created_at |-> ts, updated_at |-> ts]

get_scan_by_id(t, scan_id) ==
    LET items == query_gsi(t, ScanSK(scan_id))
    IN IF items = {} THEN NoItem ELSE t[CHOOSE k \in items : TRUE]

get_user_scans(t, user_id) == {t[k] : k \in query_by_pk(t, UserPK(user_id), "SCAN")}

\* variant: the update goes to every scan item of the user
update_scan_of_user(t, user_id, scan_id, updates, ts) ==
    [k \in DOMAIN t \cup {<<UserPK(user_id), ScanSK(scan_id)>>} |->
        IF k[1] = UserPK(user_id) /\ k[2][1] = "SCAN"
        THEN update_item(t, k[1], k[2], [updated_at |-> ts] @@ updates)[k]
        ELSE t[k]]

\* update_scan stamps updated_at and hands the updates to update_item
update_scan(t, user_id, scan_id, updates, ts) ==
    update_item(t, UserPK(user_id), ScanSK(scan_id), [updated_at |-> ts] @@ updates)

delete_scan_item(t, user_id, scan_id) == delete_item(t, UserPK(user_id), ScanSK(scan_id))

delete_credential_item(t, user_id, cred_id) ==
    delete_item(t, UserPK(user_id), CredSK(cred_id))

(* --------------------- app/services/aws_scanner.py --------------------- *)
\* what the account holds of one resource category, and the text of a failure
Inventory == <<"resource">>
ScanErrorText == "AccessDenied"

\* variant: the failure is noted next to the counts of an earlier answer
_scan_ec2_keeps_counts(region, fails) ==
    IF fails THEN [instances |-> Inventory, count |-> Len(Inventory), error |-> ScanErrorText]
    ELSE [instances |-> Inventory, count |-> Len(Inventory)]

_scan_ec2(region, fails) ==
    IF fails THEN [instances |-> <<>>, count |-> 0, error |-> ScanErrorText]
    ELSE [instances |-> Inventory, count |-> Len(Inventory)]

_scan_s3(region, fails) ==
    IF fails THEN [buckets |-> <<>>, count |-> 0, error |-> ScanErrorText]
    ELSE [buckets |-> Inventory, count |-> Len(Inventory)]

_scan_rds(region, fails) ==
    IF fails THEN [databases |-> <<>>, count |-> 0, error |-> ScanErrorText]
    ELSE [databases |-> Inventory, count |-> Len(Inventory)]

_scan_lambda(region, fails) ==
    IF fails THEN [functions |-> <<>>, count |-> 0, error |-> ScanErrorText]
    ELSE [functions |-> Inventory, count |-> Len(Inventory)]

_scan_vpc(region, fails) ==
    IF fails THEN [vpcs |-> 0, security_groups |-> 0, error |-> ScanErrorText]
    ELSE [vpcs |-> Len(Inventory), security_groups |-> Len(Inventory)]

_scan_iam(region, fails) ==
    IF fails THEN [users |-> 0, roles |-> 0, error |-> ScanErrorText]
    ELSE [users |-> Len(Inventory), roles |-> Len(Inventory)]

_scan_cloudwatch(region, fails) ==
    IF fails THEN [alarms |-> 0, error |-> ScanErrorText]
    ELSE [alarms |-> Len(Inventory)]

\* the categories scan_region evaluates for a region
Evaluated(region) ==
    IF region = HomeRegion THEN Categories ELSE Categories \ GlobalCategories

\* failing: the categories whose scan raises during this call
scan_region(region, failing) ==
    [region |-> region,
     ec2 |-> _scan_ec2(region, "ec2" \in failing),
     s3 |-> IF region = HomeRegion THEN _scan_s3(region, "s3" \in failing) ELSE NoItem,
     rds |-> _scan_rds(region, "rds" \in failing),
     lambda |-> _scan_lambda(region, "lambda" \in failing),
     vpc |-> _scan_vpc(region, "vpc" \in failing),
     iam |-> IF region = HomeRegion THEN _scan_iam(region, "iam" \in failing) ELSE NoItem,
     cloudwatch |-> _scan_cloudwatch(region, "cloudwatch" \in failing)]

\* variant: a failed enumeration yields no region
get_all_regions_empty_on_failure(enumerated, fails) == IF fails THEN <<>> ELSE enumerated

\* enumerated: what describe_regions answers; fails: the call raises
get_all_regions(enumerated, fails) == IF fails THEN DefaultRegions ELSE enumerated

(* ----------------- app/services/bedrock_agents_service.py -------------- *)
LlmErrorText == "ThrottlingException"
AnalysisText == "analysis"
SummaryText == "summary"
SummaryFallback == "Error generating executive summary"

AgentName(pillar) ==
    CASE pillar = "operational_excellence" -> "Operational Excellence Agent"
      [] pillar = "security" -> "Security Agent"
      [] pillar = "reliability" -> "Reliability Agent"
      [] pillar = "performance_efficiency" -> "Performance Efficiency Agent"
      [] pillar = "cost_optimization" -> "Cost Optimization Agent"
      [] pillar = "sustainability" -> "Sustainability Agent"

\* variant: a failed invocation is noted next to an analysis field
analyze_pillar_error_and_analysis(pillar, scan_results, fails) ==
    IF fails THEN [pillar |-> pillar, error |-> LlmErrorText, analysis |-> ""]
    ELSE [pillar |-> pillar, agent |-> AgentName(pillar), analysis |-> AnalysisText]

analyze_pillar(pillar, scan_results, fails) ==
    IF fails THEN [pillar |-> pillar, error |-> LlmErrorText]
    ELSE [pillar |-> pillar, agent |-> AgentName(pillar), analysis |-> AnalysisText]

_generate_executive_summary(assessments, scan_results, fails) ==
    IF fails THEN SummaryFallback ELSE SummaryText

_extract_priority_recommendations(assessments) ==
    SelectSeq([i \in DOMAIN assessments |->
                  [pillar |-> assessments[i][1],
                   has_analysis |-> "analysis" \in DOMAIN assessments[i][2]]],
              LAMBDA r : r.has_analysis)

\* failing: the pillars whose invocation raises; summary_fails: the synthesis raises
comprehensive_assessment(scan_results, failing, summary_fails) ==
    LET assessments == [i \in DOMAIN Pillars |->
            <<Pillars[i], analyze_pillar(Pillars[i], scan_results, Pillars[i] \in failing)>>]
    IN [executive_summary |->
            _generate_executive_summary(assessments, scan_results, summary_fails),
        pillar_assessments |-> assessments,
        priority_recommendations |-> _extract_priority_recommendations(assessments)]

\* pillar.upper().replace('_', ' ')
PillarTitle(pillar) ==
    CASE pillar = "operational_excellence" -> "OPERATIONAL EXCELLENCE"
      [] pillar = "security" -> "SECURITY"
      [] pillar = "reliability" -> "RELIABILITY"
      [] pillar = "performance_efficiency" -> "PERFORMANCE EFFICIENCY"
      [] pillar = "cost_optimization" -> "COST OPTIMIZATION"
      [] pillar = "sustainability" -> "SUSTAINABILITY"

\* variant: the pillar sections alone
format_recommendations_pillars_only(assessment) ==
    [i \in DOMAIN assessment.pillar_assessments |->
        LET entry == assessment.pillar_assessments[i]
        IN [title |-> PillarTitle(entry[1]),
            body |-> IF "analysis" \in DOMAIN entry[2] THEN entry[2].analysis ELSE "N/A"]]

\* the text of ai_recommendations, as its sequence of titled sections
format_recommendations(assessment) ==
    <<[title |-> "EXECUTIVE SUMMARY", body |-> assessment.executive_summary]>> \o
    [i \in DOMAIN assessment.pillar_assessments |->
        LET entry == assessment.pillar_assessments[i]
        IN [title |-> PillarTitle(entry[1]),
            body |-> IF "analysis" \in DOMAIN entry[2] THEN entry[2].analysis ELSE "N/A"]]

\* variant: the share of the regions still to scan
scan_progress_remaining(done, total) == ((total - done) * ScanShare) \div total

\* int(((idx + 1) / len(regions)) * 80)
scan_progress(done, total) == (done * ScanShare) \div total

(* ------------------------------- state -------------------------------- *)
IdleTask == [pc |-> "idle", user_id |-> "none", credential_id |-> "none",
             regions_none |-> TRUE, regions |-> <<>>, credential |-> NoItem,
             access_key |-> "", secret_key |-> "",
             all_results |-> <<>>, idx |-> 0, ai_recommendations |-> <<>>, e |-> ""]

\* the state after start-up, with the number of external calls that may fail
InitWith(failures) ==
    /\ table = [k \in {} |-> NoItem]
    /\ issued = {}
    /\ now = 1
    /\ task = [s \in Range(ScanIds) |-> IdleTask]
    /\ faults = failures

Init == InitWith(MaxFaults)

\* variant: a generator that repeats its first value
uuid4_repeats(ids) == ids[1]

\* uuid.uuid4(): a value that was never handed out before
uuid4(ids) == ids[CHOOSE i \in DOMAIN ids :
                    /\ ids[i] \notin issued
                    /\ \A j \in 1..(i - 1) : ids[j] \in issued]

Fresh(ids, max) ==
    /\ Cardinality(issued \cap Range(ids)) < max
    /\ Range(ids) \ issued # {}

\* the external calls of one step that fail: n of them, taken from the failures
\* the behaviour has left
Faults(n) ==
    /\ n <= faults
    /\ faults' = faults - n

Cost(fails) == IF fails THEN 1 ELSE 0

\* one write call of the client with its outcome: applied when "ok"
Written(t, outcome, written) == IF outcome = "ok" THEN written ELSE t

\* what a route answers: the status code, the detail of an HTTPException, the body
Reply(code, detail, body) == [status_code |-> code, detail |-> detail, body |-> body]

(* --------------------- app/api/routes/credentials.py ------------------- *)
\* each route gives its reply and the table it leaves
create_credential(t, user, cred_id, ts, outcome) ==
    LET item == create_credential_item(user, cred_id, ts)
    IN [reply |-> Reply(HttpCreated, "", [id |-> cred_id]),
        table |-> Written(t, outcome, put_item(t, item))]

delete_credential(t, user, cred_id, query_fails, outcome) ==
    LET credential == IF query_fails THEN NoItem ELSE get_credential_by_id(t, cred_id)
    IN IF credential = NoItem \/ credential.user_id # user
       THEN [reply |-> Reply(HttpNotFound, "Credential not found", NoItem), table |-> t]
       ELSE [reply |-> Reply(HttpNoContent, "", NoItem),
             table |-> Written(t, outcome, delete_credential_item(t, user, cred_id))]

(* ------------------------ app/api/routes/scan.py ----------------------- *)
\* the region lists a caller may send, and the lists describe_regions may answer
RegionLists == SeqsUpTo(RegionNames, MaxRegions)
EnumeratedLists == {q \in RegionLists : NoDup(q)}

\* the ids a request may name: every uuid, and one that is never handed out
RequestIds == Range(ScanIds) \cup {"s0"}

ScanDetail(scan) ==
    [id |-> scan.scan_id, scan_name |-> scan.scan_name, status |-> scan.status,
     progress |-> scan.progress, regions_scanned |-> scan.regions_scanned,
     created_at |-> scan.created_at, results |-> scan.results,
     ai_recommendations |-> scan.ai_recommendations,
     error_message |-> scan.error_message]

\* variant: the owner of the credential is not compared with the caller
create_scan_any_owner(t, user, credential_id, regions_none, regions, scan_id, ts, query_fails, outcome) ==
    LET credential == IF query_fails THEN NoItem
                      ELSE get_credential_by_id(t, credential_id)
        scan == create_scan_item(user, credential_id, ScanName, scan_id, ts)
    IN IF credential = NoItem
       THEN [reply |-> Reply(HttpNotFound, "Credential not found", NoItem),
             table |-> t, dispatched |-> IdleTask]
       ELSE [reply |-> Reply(HttpCreated, "", [id |-> scan_id]),
             table |-> Written(t, outcome, put_item(t, scan)),
             dispatched |-> [IdleTask EXCEPT !.pc = "start", !.user_id = user,
                                             !.credential_id = credential_id,
                                             !.regions_none = regions_none,
                                             !.regions = regions]]

\* dispatched: the arguments of the background task the route adds, if it adds one
create_scan(t, user, credential_id, regions_none, regions, scan_id, ts, query_fails, outcome) ==
    LET credential == IF query_fails THEN NoItem
                      ELSE get_credential_by_id(t, credential_id)
        scan == create_scan_item(user, credential_id, ScanName, scan_id, ts)
    IN IF credential = NoItem \/ credential.user_id # user
       THEN [reply |-> Reply(HttpNotFound, "Credential not found", NoItem),
             table |-> t, dispatched |-> IdleTask]
       ELSE [reply |-> Reply(HttpCreated, "", [id |-> scan_id]),
             table |-> Written(t, outcome, put_item(t, scan)),
             dispatched |-> [IdleTask EXCEPT !.pc = "start", !.user_id = user,
                                             !.credential_id = credential_id,
                                             !.regions_none = regions_none,
                                             !.regions = regions]]

\* the fields list_scans reads with scan[...]: a stored item without one of them
\* raises KeyError, which the framework answers with 500
ListedFields == {"scan_id", "scan_name", "status", "progress", "created_at"}

ScanSummary(scan) ==
    [id |-> scan.scan_id, scan_name |-> scan.scan_name, status |-> scan.status,
     progress |-> scan.progress,
     regions_scanned |-> IF "regions_scanned" \in DOMAIN scan THEN scan.regions_scanned
                         ELSE <<>>,
     created_at |-> scan.created_at]

\* the body is the set of the summaries; the route sorts them by created_at
list_scans(t, user, query_fails) ==
    LET scans == IF query_fails THEN {} ELSE get_user_scans(t, user)
    IN IF \E scan \in scans : ~(ListedFields \subseteq DOMAIN scan)
       THEN [reply |-> Reply(HttpServerError, "Internal Server Error", {}), table |-> t]
       ELSE [reply |-> Reply(HttpOk, "", {ScanSummary(scan) : scan \in scans}), table |-> t]

get_scan(t, user, scan_id, query_fails) ==
    LET scan == IF query_fails THEN NoItem ELSE get_scan_by_id(t, scan_id)
    IN IF scan = NoItem \/ scan.user_id # user
       THEN [reply |-> Reply(HttpNotFound, "Scan not found", NoItem), table |-> t]
       ELSE [reply |-> Reply(HttpOk, "", ScanDetail(scan)), table |-> t]

\* variant: the owner is not compared with the caller
delete_scan_unchecked(t, user, scan_id, query_fails, outcome) ==
    LET scan == IF query_fails THEN NoItem ELSE get_scan_by_id(t, scan_id)
    IN IF scan = NoItem
       THEN [reply |-> Reply(HttpNotFound, "Scan not found", NoItem), table |-> t]
       ELSE [reply |-> Reply(HttpNoContent, "", NoItem),
             table |-> Written(t, outcome, delete_scan_item(t, scan.user_id, scan_id))]

delete_scan(t, user, scan_id, query_fails, outcome) ==
    LET scan == IF query_fails THEN NoItem ELSE get_scan_by_id(t, scan_id)
    IN IF scan = NoItem \/ scan.user_id # user
       THEN [reply |-> Reply(HttpNotFound, "Scan not found", NoItem), table |-> t]
       ELSE [reply |-> Reply(HttpNoContent, "", NoItem),
             table |-> Written(t, outcome, delete_scan_item(t, user, scan_id))]

(* ----------------------- app/api/routes/report.py ---------------------- *)
\* variant: the status of the scan is not looked at
download_pdf_report_any_status(t, user, scan_id, query_fails) ==
    LET scan == IF query_fails THEN NoItem ELSE get_scan_by_id(t, scan_id)
    IN IF scan = NoItem \/ scan.user_id # user
       THEN [reply |-> Reply(HttpNotFound, "Scan not found", NoItem), table |-> t]
       ELSE [reply |-> Reply(HttpOk, "", ScanDetail(scan)), table |-> t]

\* generate_pdf_report and generate_excel_report render the scan they are given
download_pdf_report(t, user, scan_id, query_fails) ==
    LET scan == IF query_fails THEN NoItem ELSE get_scan_by_id(t, scan_id)
    IN IF scan = NoItem \/ scan.user_id # user
       THEN [reply |-> Reply(HttpNotFound, "Scan not found", NoItem), table |-> t]
       ELSE IF scan.status # "completed"
       THEN [reply |-> Reply(HttpBadRequest, "Scan not completed yet", NoItem), table |-> t]
       ELSE [reply |-> Reply(HttpOk, "", ScanDetail(scan)), table |-> t]

download_excel_report(t, user, scan_id, query_fails) ==
    LET scan == IF query_fails THEN NoItem ELSE get_scan_by_id(t, scan_id)
    IN IF scan = NoItem \/ scan.user_id # user
       THEN [reply |-> Reply(HttpNotFound, "Scan not found", NoItem), table |-> t]
       ELSE IF scan.status # "completed"
       THEN [reply |-> Reply(HttpBadRequest, "Scan not completed yet", NoItem), table |-> t]
       ELSE [reply |-> Reply(HttpOk, "", ScanDetail(scan)), table |-> t]

(* --------------------- perform_scan, the background task --------------- *)
\* where the task goes after a write: on, or into the except clause
AfterWrite(t, outcome, next) ==
    IF outcome = "raise" THEN [t EXCEPT !.pc = "except", !.e = StoreErrorText]
    ELSE next

\* scan.py 17-22: the status becomes running
perform_scan_start(s, outcome) ==
    LET t == task[s]
    IN /\ t.pc = "start"
       /\ outcome \in WriteOutcomes
       /\ Faults(Cost(outcome # "ok"))
       /\ table' = Written(table, outcome, update_scan(table, t.user_id, s,
                    [status |-> "running", started_at |-> NoneValue], now))
       /\ now' = now + 1
       /\ task' = [task EXCEPT ![s] =
              AfterWrite(t, outcome, [t EXCEPT !.pc = "get_credential"])]
       /\ UNCHANGED issued

\* scan.py 24-27
perform_scan_get_credential(s, query_fails) ==
    LET t == task[s]
        credential == IF query_fails THEN NoItem
                      ELSE get_credential_by_id(table, t.credential_id)
    IN /\ t.pc = "get_credential"
       /\ Faults(Cost(query_fails))
       /\ task' = [task EXCEPT ![s] =
              IF credential = NoItem
              THEN [t EXCEPT !.pc = "except", !.e = "Credential not found"]
              ELSE [t EXCEPT !.pc = "decrypt", !.credential = credential]]
       /\ UNCHANGED <<table, issued, now>>

\* scan.py 29-34
perform_scan_decrypt(s, fails) ==
    LET t == task[s]
    IN /\ t.pc = "decrypt"
       /\ Faults(Cost(fails))
       /\ task' = [task EXCEPT ![s] =
              IF fails
              THEN [t EXCEPT !.pc = "except", !.e = InvalidTokenText]
              ELSE [t EXCEPT !.pc = "resolve",
                      !.access_key = decrypt_credential(t.credential.encrypted_access_key),
                      !.secret_key = decrypt_credential(t.credential.encrypted_secret_key)]]
       /\ UNCHANGED <<table, issued, now>>

\* variant: only a missing list is enumerated ("if regions is None")
resolve_regions_none_only(regions_none, regions, enumerated, fails) ==
    IF regions_none THEN get_all_regions(enumerated, fails) ELSE regions

\* scan.py 37-38: "not regions" holds for None and for the empty list
resolve_regions(regions_none, regions, enumerated, fails) ==
    IF regions_none \/ regions = <<>> THEN get_all_regions(enumerated, fails) ELSE regions

\* scan.py 36-41
perform_scan_resolve_regions(s, enumerated, fails) ==
    LET t == task[s]
    IN /\ t.pc = "resolve"
       /\ IF t.regions = <<>>
          THEN /\ enumerated \in EnumeratedLists
               /\ fails => enumerated = <<>>
          ELSE enumerated = <<>> /\ ~fails
       /\ Faults(Cost(fails))
       /\ task' = [task EXCEPT ![s] =
              [t EXCEPT !.pc = "loop", !.idx = 0, !.all_results = <<>>,
                        !.regions = resolve_regions(t.regions_none, t.regions,
                                                    enumerated, fails)]]
       /\ UNCHANGED <<table, issued, now>>

\* scan.py 42-53: one iteration of the loop over the regions
perform_scan_region(s, failing, outcome) ==
    LET t == task[s]
        region == t.regions[t.idx + 1]
        all_results == DictSet(t.all_results, region, scan_region(region, failing))
        progress == scan_progress(t.idx + 1, Len(t.regions))
    IN /\ t.pc = "loop"
       /\ t.idx < Len(t.regions)
       /\ failing \subseteq Evaluated(region)
       /\ outcome \in WriteOutcomes
       /\ Faults(Cardinality(failing) + Cost(outcome # "ok"))
       /\ table' = Written(table, outcome, update_scan(table, t.user_id, s,
                    [progress |-> progress, regions_scanned |-> DictKeys(all_results),
                     results |-> all_results], now))
       /\ now' = now + 1
       /\ task' = [task EXCEPT ![s] =
              AfterWrite([t EXCEPT !.all_results = all_results], outcome,
                         [t EXCEPT !.all_results = all_results, !.idx = t.idx + 1])]
       /\ UNCHANGED issued

\* variant: the loop over the regions is left after any iteration
perform_scan_progress85_early(s, outcome) ==
    LET t == task[s]
    IN /\ t.pc = "loop"
       /\ outcome \in WriteOutcomes
       /\ Faults(Cost(outcome # "ok"))
       /\ table' = Written(table, outcome, update_scan(table, t.user_id, s,
                    [progress |-> AssessProgress], now))
       /\ now' = now + 1
       /\ task' = [task EXCEPT ![s] = AfterWrite(t, outcome, [t EXCEPT !.pc = "assess"])]
       /\ UNCHANGED issued

\* scan.py 55-57
perform_scan_progress85(s, outcome) ==
    LET t == task[s]
    IN /\ t.pc = "loop"
       /\ t.idx = Len(t.regions)
       /\ outcome \in WriteOutcomes
       /\ Faults(Cost(outcome # "ok"))
       /\ table' = Written(table, outcome, update_scan(table, t.user_id, s,
                    [progress |-> AssessProgress], now))
       /\ now' = now + 1
       /\ task' = [task EXCEPT ![s] = AfterWrite(t, outcome, [t EXCEPT !.pc = "assess"])]
       /\ UNCHANGED issued

\* scan.py 59-70
perform_scan_assess(s, failing, summary_fails) ==
    LET t == task[s]
        assessment == comprehensive_assessment(t.all_results, failing, summary_fails)
    IN /\ t.pc = "assess"
       /\ failing \subseteq Range(Pillars)
       /\ Faults(Cardinality(failing) + Cost(summary_fails))
       /\ task' = [task EXCEPT ![s] =
              [t EXCEPT !.pc = "complete",
                        !.ai_recommendations = format_recommendations(assessment)]]
       /\ UNCHANGED <<table, issued, now>>

\* variant: the status is written before the recommendations are
perform_scan_complete_status_first(s, outcome) ==
    LET t == task[s]
    IN /\ t.pc = "complete"
       /\ outcome \in WriteOutcomes
       /\ Faults(Cost(outcome # "ok"))
       /\ table' = Written(table, outcome, update_scan(table, t.user_id, s,
                    [status |-> "completed", progress |-> DoneProgress,
                     completed_at |-> NoneValue], now))
       /\ now' = now + 1
       /\ task' = [task EXCEPT ![s] = AfterWrite(t, outcome, [t EXCEPT !.pc = "done"])]
       /\ UNCHANGED issued

\* variant: a statement after the completion write raises
perform_scan_complete_then_raises(s, outcome) ==
    LET t == task[s]
    IN /\ t.pc = "complete"
       /\ outcome \in WriteOutcomes
       /\ Faults(Cost(outcome # "ok"))
       /\ table' = Written(table, outcome, update_scan(table, t.user_id, s,
                    [status |-> "completed", progress |-> DoneProgress,
                     ai_recommendations |-> t.ai_recommendations,
                     completed_at |-> NoneValue], now))
       /\ now' = now + 1
       /\ task' = [task EXCEPT ![s] = [t EXCEPT !.pc = "except", !.e = "logging"]]
       /\ UNCHANGED issued

\* scan.py 72-80
perform_scan_complete(s, outcome) ==
    LET t == task[s]
    IN /\ t.pc = "complete"
       /\ outcome \in WriteOutcomes
       /\ Faults(Cost(outcome # "ok"))
       /\ table' = Written(table, outcome, update_scan(table, t.user_id, s,
                    [status |-> "completed", progress |-> DoneProgress,
                     ai_recommendations |-> t.ai_recommendations,
                     completed_at |-> NoneValue], now))
       /\ now' = now + 1
       /\ task' = [task EXCEPT ![s] = AfterWrite(t, outcome, [t EXCEPT !.pc = "done"])]
       /\ UNCHANGED issued

\* scan.py 82-87: the except clause, after which the task returns ("handled"); an
\* exception of its own write leaves the task ("crashed")
perform_scan_except(s, outcome) ==
    LET t == task[s]
    IN /\ t.pc = "except"
       /\ outcome \in WriteOutcomes
       /\ Faults(Cost(outcome # "ok"))
       /\ table' = Written(table, outcome, update_scan(table, t.user_id, s,
                    [status |-> "failed", error_message |-> t.e], now))
       /\ now' = now + 1
       /\ task' = [task EXCEPT ![s] =
              [t EXCEPT !.pc = IF outcome = "raise" THEN "crashed" ELSE "handled"]]
       /\ UNCHANGED issued

(* ---------------------------- specification ---------------------------- *)
CreateCredential ==
    \E u \in Users, o \in {"ok", "false"} :
        /\ Fresh(CredIds, MaxCreds)
        /\ Faults(Cost(o # "ok"))
        /\ table' = create_credential(table, u, uuid4(CredIds), now, o).table
        /\ issued' = issued \cup {uuid4(CredIds)}
        /\ now' = now + 1
        /\ UNCHANGED task

DeleteCredential ==
    \E u \in Users, c \in Range(CredIds), q \in BOOLEAN, o \in {"ok", "false"} :
        LET done == delete_credential(table, u, c, q, o)
        IN /\ done.reply.status_code = HttpNotFound => o = "ok"
           /\ done.reply.status_code # HttpNotFound => ~q
           /\ Faults(Cost(q) + Cost(o # "ok"))
           /\ table' = done.table
           /\ UNCHANGED <<issued, now, task>>

\* a request that is turned away
CreateScanRejected ==
    \E u \in Users, c \in Range(CredIds), q \in BOOLEAN :
        LET done == create_scan(table, u, c, TRUE, <<>>, "s0", now, q, "ok")
        IN /\ done.reply.status_code = HttpNotFound
           /\ Faults(Cost(q))
           /\ table' = done.table
           /\ UNCHANGED <<issued, now, task>>

\* a request that is served: the scan is stored and its task is added; max is the
\* number of scans created in one behaviour
CreateScanUpTo(max) ==
    \E u \in Users, c \in Range(CredIds), n \in BOOLEAN, r \in RegionLists,
       o \in {"ok", "false"} :
        /\ Fresh(ScanIds, max)
        /\ n => r = <<>>
        /\ LET scan_id == uuid4(ScanIds)
               done == create_scan(table, u, c, n, r, scan_id, now, FALSE, o)
           IN /\ done.reply.status_code = HttpCreated
              /\ Faults(Cost(o # "ok"))
              /\ table' = done.table
              /\ issued' = issued \cup {scan_id}
              /\ task' = [task EXCEPT ![scan_id] = done.dispatched]
              /\ now' = now + 1

CreateScan == CreateScanUpTo(MaxScans)

DeleteScan ==
    \E u \in Users, s \in RequestIds, q \in BOOLEAN, o \in {"ok", "false"} :
        LET done == delete_scan(table, u, s, q, o)
        IN /\ done.reply.status_code = HttpNotFound => o = "ok"
           /\ done.reply.status_code # HttpNotFound => ~q
           /\ Faults(Cost(q) + Cost(o # "ok"))
           /\ table' = done.table
           /\ UNCHANGED <<issued, now, task>>

\* the routes that only read leave the state as it is
GetScan ==
    \E u \in Users, s \in RequestIds, q \in BOOLEAN :
        /\ Faults(Cost(q))
        /\ table' = get_scan(table, u, s, q).table
        /\ UNCHANGED <<issued, now, task>>

ListScans ==
    \E u \in Users, q \in BOOLEAN :
        /\ Faults(Cost(q))
        /\ table' = list_scans(table, u, q).table
        /\ UNCHANGED <<issued, now, task>>

DownloadPdf ==
    \E u \in Users, s \in RequestIds, q \in BOOLEAN :
        /\ Faults(Cost(q))
        /\ table' = download_pdf_report(table, u, s, q).table
        /\ UNCHANGED <<issued, now, task>>

DownloadExcel ==
    \E u \in Users, s \in RequestIds, q \in BOOLEAN :
        /\ Faults(Cost(q))
        /\ table' = download_excel_report(table, u, s, q).table
        /\ UNCHANGED <<issued, now, task>>

RunStart == \E s \in Range(ScanIds), o \in WriteOutcomes : perform_scan_start(s, o)
RunGetCredential == \E s \in Range(ScanIds), q \in BOOLEAN : perform_scan_get_credential(s, q)
RunDecrypt == \E s \in Range(ScanIds), f \in BOOLEAN : perform_scan_decrypt(s, f)
RunResolveRegions ==
    \E s \in Range(ScanIds), l \in EnumeratedLists, f \in BOOLEAN :
        perform_scan_resolve_regions(s, l, f)
RunRegion ==
    \E s \in Range(ScanIds), c \in SUBSET Categories, o \in WriteOutcomes :
        perform_scan_region(s, c, o)
RunProgress85 == \E s \in Range(ScanIds), o \in WriteOutcomes : perform_scan_progress85(s, o)
RunAssess ==
    \E s \in Range(ScanIds), p \in SUBSET Range(Pillars), f \in BOOLEAN :
        perform_scan_assess(s, p, f)
RunComplete == \E s \in Range(ScanIds), o \in WriteOutcomes : perform_scan_complete(s, o)
RunExcept == \E s \in Range(ScanIds), o \in WriteOutcomes : perform_scan_except(s, o)

Next ==
    \/ CreateCredential \/ DeleteCredential \/ CreateScanRejected \/ CreateScan
    \/ DeleteScan \/ ListScans \/ GetScan \/ DownloadPdf \/ DownloadExcel
    \/ RunStart \/ RunGetCredential \/ RunDecrypt \/ RunResolveRegions \/ RunRegion
    \/ RunProgress85 \/ RunAssess \/ RunComplete \/ RunExcept

Spec == Init /\ [][Next]_vars

\* the same system when every external call succeeds
InitReliable == InitWith(0)

SpecReliable == InitReliable /\ [][Next]_vars

\* a step of A in which every external call succeeds
Reliable(A) == A /\ faults' = faults

\* the same system when the invocations of the language model are the only external
\* calls that fail, and any of them may: the six pillar analyses and the synthesis
InitAssessment == InitWith(Len(Pillars) + 1)

NextAssessment ==
    \/ Reliable(CreateCredential) \/ Reliable(DeleteCredential)
    \/ Reliable(CreateScanRejected) \/ Reliable(CreateScan) \/ Reliable(DeleteScan)
    \/ Reliable(ListScans)
    \/ Reliable(GetScan) \/ Reliable(DownloadPdf) \/ Reliable(DownloadExcel)
    \/ Reliable(RunStart) \/ Reliable(RunGetCredential) \/ Reliable(RunDecrypt)
    \/ Reliable(RunResolveRegions) \/ Reliable(RunRegion) \/ Reliable(RunProgress85)
    \/ RunAssess \/ Reliable(RunComplete) \/ Reliable(RunExcept)

SpecAssessment == InitAssessment /\ [][NextAssessment]_vars

\* the same system with two scans, whose runs interleave, when every external call
\* succeeds and the caller of create_scan names one region
ShortLists == \A s \in Range(ScanIds) : task[s].pc # "idle" => Len(task[s].regions) = 1

Scoped(A) == A /\ ShortLists'

InitTwoRuns == InitWith(0)

NextTwoRuns ==
    \/ CreateCredential \/ DeleteCredential \/ CreateScanRejected
    \/ Scoped(CreateScanUpTo(MaxRuns)) \/ DeleteScan
    \/ ListScans \/ GetScan \/ DownloadPdf \/ DownloadExcel
    \/ RunStart \/ RunGetCredential \/ RunDecrypt \/ RunResolveRegions
    \/ RunRegion \/ RunProgress85 \/ RunAssess \/ RunComplete \/ RunExcept

SpecTwoRuns == InitTwoRuns /\ [][NextTwoRuns]_vars

(* ------------- app/api/routes/auth.py, user_repository.py ------------- *)
Emails == {"a@example.com", "b@example.com"}
Usernames == {"alice", "bob"}
Password == "password"
\* the values uuid4 hands out for users, and the signup requests in flight
UserIds == <<"n1", "n2", "n3">>
SignupIds == 1..MaxSignups

ProfileSK == <<"PROFILE", "">>
EmailPK(email) == <<"EMAIL", email>>

\* bcrypt: the hash carries the password, checked only through verify_password
get_password_hash(password) == <<"bcrypt", password>>

create_user_item(email, username, hashed_password, user_id, ts) ==
    [PK |-> UserPK(user_id), SK |-> ProfileSK,
     GSI1PK |-> EmailPK(email), GSI1SK |-> UserPK(user_id),
     user_id |-> user_id, email |-> email, username |-> username,
     hashed_password |-> hashed_password, full_name |-> "", is_active |-> TRUE,
     created_at |-> ts, updated_at |-> ts]

get_user_by_email(t, email) ==
    LET items == query_gsi(t, EmailPK(email))
    IN IF items = {} THEN NoItem ELSE t[CHOOSE k \in items : TRUE]

\* a scan of the table with a filter on username
get_user_by_username(t, username) ==
    LET items == {k \in DOMAIN t : "username" \in DOMAIN t[k] /\ t[k].username = username}
    IN IF items = {} THEN NoItem ELSE t[CHOOSE k \in items : TRUE]

\* a signup handler: its position, the request it serves and the status it answers
IdleSignup == [pc |-> "idle", email |-> "", username |-> "", status_code |-> 0]

\* auth.py 43: a request arrives at one of the backend instances
signup_arrives(r, email, username) ==
    /\ task[r].pc = "idle"
    /\ task' = [task EXCEPT ![r] =
           [IdleSignup EXCEPT !.pc = "check_email", !.email = email, !.username = username]]
    /\ UNCHANGED <<table, issued, now, faults>>

\* auth.py 46-51: a query that fails answers like one that finds nothing
signup_check_email(r, query_fails) ==
    LET existing_user == IF query_fails THEN NoItem
                         ELSE get_user_by_email(table, task[r].email)
    IN /\ task[r].pc = "check_email"
       /\ Faults(Cost(query_fails))
       /\ task' = [task EXCEPT ![r] =
              IF existing_user # NoItem
              THEN [@ EXCEPT !.pc = "rejected", !.status_code = HttpBadRequest]
              ELSE [@ EXCEPT !.pc = "check_username"]]
       /\ UNCHANGED <<table, issued, now>>

\* auth.py 53-58
signup_check_username(r, scan_fails) ==
    LET existing_username == IF scan_fails THEN NoItem
                             ELSE get_user_by_username(table, task[r].username)
    IN /\ task[r].pc = "check_username"
       /\ Faults(Cost(scan_fails))
       /\ task' = [task EXCEPT ![r] =
              IF existing_username # NoItem
              THEN [@ EXCEPT !.pc = "rejected", !.status_code = HttpBadRequest]
              ELSE [@ EXCEPT !.pc = "create"]]
       /\ UNCHANGED <<table, issued, now>>

\* auth.py 60-85: create_user returns the item whatever put_item returned; an
\* exception of the put is answered with 500
signup_create(r, outcome) ==
    LET user_id == uuid4(UserIds)
        item == create_user_item(task[r].email, task[r].username,
                                 get_password_hash(Password), user_id, now)
    IN /\ task[r].pc = "create"
       /\ outcome \in WriteOutcomes
       /\ Faults(Cost(outcome # "ok"))
       /\ table' = Written(table, outcome, put_item(table, item))
       /\ issued' = issued \cup {user_id}
       /\ now' = now + 1
       /\ task' = [task EXCEPT ![r] =
              IF outcome = "raise"
              THEN [@ EXCEPT !.pc = "error", !.status_code = HttpServerError]
              ELSE [@ EXCEPT !.pc = "created", !.status_code = HttpCreated]]

SignupArrives ==
    \E r \in SignupIds, e \in Emails, n \in Usernames : signup_arrives(r, e, n)
SignupCheckEmail == \E r \in SignupIds, q \in BOOLEAN : signup_check_email(r, q)
SignupCheckUsername == \E r \in SignupIds, q \in BOOLEAN : signup_check_username(r, q)
SignupCreate == \E r \in SignupIds, o \in WriteOutcomes : signup_create(r, o)

InitSignup ==
    /\ table = [k \in {} |-> NoItem]
    /\ issued = {}
    /\ now = 1
    /\ task = [r \in SignupIds |-> IdleSignup]
    /\ faults = MaxFaults

NextSignup == SignupArrives \/ SignupCheckEmail \/ SignupCheckUsername \/ SignupCreate

\* the signup requests, served by handlers that interleave at their store calls
SpecSignup == InitSignup /\ [][NextSignup]_vars

(* ------------------------------- claims -------------------------------- *)
\* the scan record a polling reader is shown for scan id s (NoItem: none)
Observed(s) == get_scan_by_id(table, s)

Holds(item, field, value) == field \in DOMAIN item /\ item[field] = value

Terminal(item) == Holds(item, "status", "completed") \/ Holds(item, "status", "failed")

\* C1: over the polls of one scan, the progress a reader is shown never decreases
C1_ProgressNonDecreasing ==
    [][\A s \in Range(ScanIds) :
          LET before == get_scan_by_id(table, s)
              after == get_scan_by_id(table', s)
          IN (before # NoItem /\ after # NoItem) => before.progress <= after.progress]_vars

\* a reader sees a completed three-region scan at 100, with the progress of the
\* second of three regions behind it
C1_Witness ==
    \E s \in Range(ScanIds) :
        /\ Observed(s) # NoItem
        /\ Observed(s).progress = DoneProgress
        /\ Len(task[s].regions) = 3
        /\ scan_progress(2, Len(task[s].regions)) = 53

\* C2: the status a reader is shown only moves pending -> running,
\* running -> completed or running -> failed
C2_StatusTransitions ==
    [][\A s \in Range(ScanIds) :
          LET before == get_scan_by_id(table, s)
              after == get_scan_by_id(table', s)
          IN (before # NoItem /\ after # NoItem) =>
                \/ before.status = after.status
                \/ <<before.status, after.status>> \in
                      {<<"pending", "running">>, <<"running", "completed">>,
                       <<"running", "failed">>}]_vars

\* the task of s has ended: returned after the completion write, returned from the
\* except clause, or left by an exception of the except clause
Ended(s) == task[s].pc \in {"done", "handled", "crashed"}

\* C3: after the k-th of n regions is processed the persisted record has progress
\* floor(k/n*80) and k entries in regions_scanned, each a key of results
C3_RegionProgress ==
    \A s \in Range(ScanIds) :
        LET t == task[s]
            rec == Observed(s)
        IN (t.pc = "loop" /\ t.idx >= 1 /\ rec # NoItem) =>
              /\ rec.progress = (t.idx * ScanShare) \div Len(t.regions)
              /\ Len(rec.regions_scanned) = t.idx
              /\ \A i \in DOMAIN rec.regions_scanned :
                    DictHas(rec.results, rec.regions_scanned[i])

\* C4: a stored item whose status is completed has non-empty ai_recommendations
C4_CompletedHasRecommendations ==
    \A k \in DOMAIN table :
        Holds(table[k], "status", "completed") =>
            /\ "ai_recommendations" \in DOMAIN table[k]
            /\ table[k].ai_recommendations # <<>>

C4_Witness ==
    \E s \in Range(ScanIds) :
        /\ Observed(s) # NoItem
        /\ Observed(s).status = "completed"
        /\ Len(Observed(s).ai_recommendations) = 1 + Len(Pillars)

C6_FailureIsRecorded ==
    [][\A s \in Range(ScanIds) :
          LET before == get_scan_by_id(table, s)
              after == get_scan_by_id(table', s)
          IN (/\ task[s].pc = "except"
              /\ task'[s].pc \in {"handled", "crashed"}
              /\ before # NoItem /\ after # NoItem) =>
                /\ after.status = "failed"
                /\ after.error_message = task[s].e
                /\ after.results = before.results
                /\ after.regions_scanned = before.regions_scanned
                /\ after.progress = before.progress]_vars

\* C7: a run whose credential id resolves to nothing ends with the record failed,
\* a non-empty error_message and progress 0, and scans no region
C7_MissingCredentialFails ==
    \A s \in Range(ScanIds) :
        LET t == task[s]
            rec == Observed(s)
        IN (Ended(s) /\ t.e = "Credential not found" /\ rec # NoItem) =>
              /\ rec.status = "failed"
              /\ rec.error_message # ""
              /\ rec.progress = 0
              /\ t.all_results = <<>> /\ t.idx = 0

\* C8: a run whose external calls all return leaves the record completed or failed
C8_EndedIsTerminal ==
    \A s \in Range(ScanIds) :
        (Ended(s) /\ Observed(s) # NoItem) => Terminal(Observed(s))

\* C9: what a user other than the owner gets for a scan id is what anybody gets for
\* an id that does not exist, and the table stays as it is
NotOwner(user, s) == Observed(s) # NoItem /\ Observed(s).user_id # user

C9_ForeignScanIsNotFound ==
    \A s \in Range(ScanIds), b \in Users, q \in BOOLEAN :
        NotOwner(b, s) =>
            /\ get_scan(table, b, s, q) = get_scan(table, b, "s0", q)
            /\ download_pdf_report(table, b, s, q) = download_pdf_report(table, b, "s0", q)
            /\ download_excel_report(table, b, s, q) =
                   download_excel_report(table, b, "s0", q)
            /\ \A o \in {"ok", "false"} :
                   /\ delete_scan(table, b, s, q, o) = delete_scan(table, b, "s0", q, o)
                   /\ delete_scan(table, b, s, q, o).reply.status_code = HttpNotFound
                   /\ delete_scan(table, b, s, q, o).table = table

\* a completed scan, which its owner can read and download, and another user
C9_Witness ==
    \E s \in Range(ScanIds), a, b \in Users :
        /\ NotOwner(b, s)
        /\ get_scan(table, a, s, FALSE).reply.status_code = HttpOk
        /\ download_pdf_report(table, a, s, FALSE).reply.status_code = HttpOk
        /\ get_scan(table, b, s, FALSE).reply.status_code = HttpNotFound

\* C10: in a region's result every category that failed has an error entry and
\* zero counts, every other evaluated category has the summary of a scan without
\* failures, and no task is in its except clause because of a category
ListFields == {"instances", "buckets", "databases", "functions"}

ZeroCounts(summary) ==
    \A f \in DOMAIN summary \ {"error"} :
        IF f \in ListFields THEN summary[f] = <<>> ELSE summary[f] = 0

CategoriesAbsorbed(region, failing, result) ==
    \A c \in Evaluated(region) :
        IF c \in failing
        THEN "error" \in DOMAIN result[c] /\ ZeroCounts(result[c])
        ELSE result[c] = scan_region(region, {})[c]

FailedCategories(result) ==
    {c \in Evaluated(result.region) : "error" \in DOMAIN result[c]}

\* scan_region over every region and every set of failing categories
EverySubsetAbsorbed ==
    \A r \in RegionNames : \A failing \in SUBSET Evaluated(r) :
        CategoriesAbsorbed(r, failing, scan_region(r, failing))

C10_CategoryFailureAbsorbed ==
    /\ EverySubsetAbsorbed
    /\ \A s \in Range(ScanIds) :
          LET t == task[s]
          IN /\ \A i \in DOMAIN t.all_results :
                    CategoriesAbsorbed(t.all_results[i][1],
                                       FailedCategories(t.all_results[i][2]),
                                       t.all_results[i][2])
             /\ t.pc \in {"except", "handled", "crashed"} => t.e # ScanErrorText
             /\ (t.pc = "loop" /\ t.idx >= 1) => Len(t.all_results) >= 1

\* a completed scan whose results hold a failed category
C10_Witness ==
    \E s \in Range(ScanIds) :
        /\ Observed(s) # NoItem
        /\ Observed(s).status = "completed"
        /\ \E i \in DOMAIN Observed(s).results :
              FailedCategories(Observed(s).results[i][2]) # {}

\* the pillars whose section of ai_recommendations stands for a failed analysis
FailedSections(recommendations) ==
    {Pillars[i] : i \in {j \in DOMAIN Pillars : recommendations[j + 1].body = "N/A"}}

\* what comprehensive_assessment returns when the pillars in failing fail
AssessmentAbsorbs(failing, summary_fails) ==
    LET assessment == comprehensive_assessment(<<>>, failing, summary_fails)
        entries == assessment.pillar_assessments
    IN /\ [i \in DOMAIN entries |-> entries[i][1]] = Pillars
       /\ \A i \in DOMAIN entries :
             IF entries[i][1] \in failing
             THEN "error" \in DOMAIN entries[i][2] /\ "analysis" \notin DOMAIN entries[i][2]
             ELSE "analysis" \in DOMAIN entries[i][2] /\ "error" \notin DOMAIN entries[i][2]
       /\ assessment.executive_summary \in {SummaryText, SummaryFallback}
       /\ FailedSections(format_recommendations(assessment)) = failing

\* comprehensive_assessment over every set of failing pillars
EveryPillarSubsetAbsorbed ==
    \A failing \in SUBSET Range(Pillars), summary_fails \in BOOLEAN :
        AssessmentAbsorbs(failing, summary_fails)

\* C11: whatever pillars fail, pillar_assessments has the six pillar keys, a failed
\* pillar's entry holds an error and no analysis, the others an analysis, the
\* executive summary is produced, no failure of an invocation reaches the except
\* clause, and the run ends with the record completed
C11_PillarFailureAbsorbed ==
    /\ EveryPillarSubsetAbsorbed
    /\ \A s \in Range(ScanIds) :
          LET t == task[s]
          IN /\ t.pc \in {"except", "handled", "crashed"} => t.e # LlmErrorText
             /\ t.pc \in {"complete", "done"} =>
                    Len(t.ai_recommendations) = 1 + Len(Pillars)
             /\ (Ended(s) /\ t.ai_recommendations # <<>> /\ Observed(s) # NoItem) =>
                    /\ Observed(s).status = "completed"
                    /\ Observed(s).ai_recommendations = t.ai_recommendations

\* the scan is completed after the analysis of security failed and the other
\* five succeeded
C11_Witness ==
    \E s \in Range(ScanIds) :
        /\ Observed(s) # NoItem
        /\ Observed(s).status = "completed"
        /\ FailedSections(Observed(s).ai_recommendations) = {"security"}
        /\ Observed(s).ai_recommendations[1].body = SummaryText

\* C12: when every external call succeeds, a run over n distinct regions with a
\* credential that resolves ends with the record completed at progress 100, with the
\* n regions as the keys of results and as regions_scanned, and with
\* ai_recommendations made of the executive summary and then the six pillars
C12_EndToEnd ==
    \A s \in Range(ScanIds) :
        LET t == task[s]
            rec == Observed(s)
        IN (Ended(s) /\ t.credential # NoItem /\ NoDup(t.regions) /\ rec # NoItem) =>
              /\ rec.status = "completed"
              /\ rec.progress = DoneProgress
              /\ Len(t.regions) >= 1 =>
                    /\ DictKeys(rec.results) = t.regions
                    /\ rec.regions_scanned = t.regions
              /\ Len(t.regions) = 0 => rec.results = <<>> /\ rec.regions_scanned = <<>>
              /\ [i \in DOMAIN rec.ai_recommendations |-> rec.ai_recommendations[i].title]
                    = <<"EXECUTIVE SUMMARY">> \o [i \in DOMAIN Pillars |-> PillarTitle(Pillars[i])]
              /\ \A i \in DOMAIN rec.ai_recommendations :
                    rec.ai_recommendations[i].body \in {SummaryText, AnalysisText}

\* a completed scan of two regions, the home region and another
C12_Witness ==
    \E s \in Range(ScanIds) :
        /\ Ended(s)
        /\ Observed(s) # NoItem
        /\ Observed(s).status = "completed"
        /\ Observed(s).regions_scanned = <<"us-east-1", "ap-south-1">>
        /\ Len(Observed(s).results) = 2
        /\ Observed(s).results[1][2].s3.count = Len(Inventory)
        /\ Observed(s).results[2][2].s3 = NoItem

\* C13: a run is started only by the create_scan request that has just created its
\* scan, under an id never handed out before, and a run that was started is never
\* started again or replaced by any operation
C13_AtMostOneRun ==
    [][\A s \in Range(ScanIds) :
          /\ (task[s].pc = "idle" /\ task'[s].pc # "idle") =>
                /\ task'[s].pc = "start"
                /\ s \notin issued /\ s \in issued'
                /\ <<UserPK(task'[s].user_id), ScanSK(s)>> \in DOMAIN table' \ DOMAIN table
          /\ task[s].pc # "idle" =>
                /\ task'[s].pc # "idle"
                /\ task'[s].pc = "start" => task'[s] = task[s]
                /\ task'[s].user_id = task[s].user_id
                /\ task'[s].credential_id = task[s].credential_id]_vars

\* two scans, each with its own run, both ended
C13_Witness ==
    \E s1, s2 \in Range(ScanIds) :
        /\ s1 # s2
        /\ task[s1].pc = "done" /\ task[s2].pc = "done"
        /\ Observed(s1) # NoItem /\ Observed(s1).status = "completed"
        /\ Observed(s2) # NoItem /\ Observed(s2).status = "completed"

\* C14: the results a reader is shown are empty while the run has completed no
\* region, and every <<region, summary>> entry shown stays, unchanged, in every
\* later state
C14_ResultsOnlyGrow ==
    [][\A s \in Range(ScanIds) :
          LET before == get_scan_by_id(table, s)
              after == get_scan_by_id(table', s)
          IN (before # NoItem /\ after # NoItem) =>
                /\ task'[s].all_results = <<>> => after.results = <<>>
                /\ \A i \in DOMAIN before.results :
                      \E j \in DOMAIN after.results :
                          after.results[j] = before.results[i]]_vars

\* the fields the next update_scan of a task names
NamedFields(t) ==
    CASE t.pc = "start" -> {"status", "started_at"}
      [] t.pc = "loop" /\ t.idx < Len(t.regions) -> {"progress", "regions_scanned", "results"}
      [] t.pc = "loop" /\ t.idx = Len(t.regions) -> {"progress"}
      [] t.pc = "complete" -> {"status", "progress", "ai_recommendations", "completed_at"}
      [] t.pc = "except" -> {"status", "error_message"}
      [] OTHER -> {}

IdentityFields ==
    {"PK", "SK", "GSI1PK", "GSI1SK", "scan_id", "user_id", "credential_id", "scan_name",
     "created_at"}

\* C15: a step that changes a stored item is an update_scan of the task that owns
\* the item, and it changes or adds only the fields that update names and
\* updated_at: every other field, the keys and the identity of the scan among
\* them, is kept with its value
C15_UpdateFrame ==
    [][\A k \in DOMAIN table \cap DOMAIN table' :
          table'[k] # table[k] =>
              \E s \in Range(ScanIds) :
                  LET named == NamedFields(task[s]) \cup {"updated_at"}
                  IN /\ k = <<UserPK(task[s].user_id), ScanSK(s)>>
                     /\ named \cap IdentityFields = {}
                     /\ DOMAIN table[k] \subseteq DOMAIN table'[k]
                     /\ DOMAIN table'[k] \ DOMAIN table[k] \subseteq named
                     /\ \A f \in DOMAIN table[k] \ named : table'[k][f] = table[k][f]]_vars

\* a record at 85 after its region writes, with the identity it was created with
C15_Witness ==
    \E s \in Range(ScanIds) :
        /\ Observed(s) # NoItem
        /\ Observed(s).progress = AssessProgress
        /\ Len(Observed(s).results) >= 1
        /\ Observed(s).scan_name = ScanName
        /\ Observed(s).credential_id = task[s].credential_id
        /\ Observed(s).updated_at > Observed(s).created_at

\* C16: what the owner of a stored scan is answered when the store call fails
\* differs from what is answered without a failure: a failed index query from the
\* answer for an id that does not exist, a failed delete from a delete that took
\* place, a failed put of create_scan from a scan that was stored
C16_StoreFailureIsTold ==
    \A s \in Range(ScanIds), u \in Users :
        (Observed(s) # NoItem /\ Observed(s).user_id = u) =>
            /\ get_scan(table, u, s, TRUE).reply # get_scan(table, u, "s0", FALSE).reply
            /\ delete_scan(table, u, s, FALSE, "false").reply #
                   delete_scan(table, u, s, FALSE, "ok").reply
            /\ \A c \in Range(CredIds) :
                   LET failed == create_scan(table, u, c, TRUE, <<>>, "s0", now, FALSE, "false")
                       stored == create_scan(table, u, c, TRUE, <<>>, "s0", now, FALSE, "ok")
                   IN stored.reply.status_code = HttpCreated => failed.reply # stored.reply

UserItems == {k \in DOMAIN table : k[2] = ProfileSK}

\* C17: no two stored user items have the same email, and no two the same username
C17_UniqueEmailAndUsername ==
    \A k1, k2 \in UserItems :
        k1 # k2 =>
            /\ table[k1].email # table[k2].email
            /\ table[k1].username # table[k2].username

\* the calls of scan_region a task has made that evaluated the global categories:
\* one for each processed position of its list that names the home region
GlobalEvaluations(t) ==
    Cardinality({i \in 1..Len(t.regions) :
                    /\ i <= t.idx \/ (i = t.idx + 1 /\ Len(t.all_results) > 0 /\ t.pc = "except")
                    /\ GlobalCategories \subseteq Evaluated(t.regions[i])})

\* C18: a run evaluates the global categories s3 and iam at most once, and only in
\* the result of the home region; the result of every other region holds the
\* empty summary for them
C18_GlobalCategoriesOnce ==
    \A s \in Range(ScanIds) :
        LET t == task[s]
        IN /\ GlobalEvaluations(t) <= 1
           /\ \A i \in DOMAIN t.all_results :
                 LET region == t.all_results[i][1]
                     result == t.all_results[i][2]
                 IN IF region = HomeRegion
                    THEN result.s3 # NoItem /\ result.iam # NoItem
                    ELSE result.s3 = NoItem /\ result.iam = NoItem

\* every invocation the assessment of a task made has failed
AggregationFailed(t) ==
    /\ t.ai_recommendations # <<>>
    /\ FailedSections(t.ai_recommendations) = Range(Pillars)
    /\ t.ai_recommendations[1].body = SummaryFallback

\* C19: a run whose six pillar analyses and synthesis all failed enters the except
\* clause and ends with the record failed and error_message set, never completed
C19_AggregationFailureIsFatal ==
    \A s \in Range(ScanIds) :
        LET t == task[s]
        IN AggregationFailed(t) =>
              /\ t.pc \in {"except", "handled", "crashed"}
              /\ (Ended(s) /\ Observed(s) # NoItem) =>
                    /\ Observed(s).status = "failed"
                    /\ Observed(s).error_message # ""

\* C20: the step that resolves the regions of a run with a failing enumeration call
\* was given no region list, leaves the run with the default list and moves it on
\* to the loop over the regions, not into the except clause
C20_EnumerationFallback ==
    [][\A s \in Range(ScanIds) :
          (task[s].pc = "resolve" /\ task'[s].pc # "resolve") =>
              /\ task'[s].pc = "loop"
              /\ task'[s].idx = 0
              /\ faults' < faults =>
                    /\ task[s].regions = <<>>
                    /\ task'[s].regions = DefaultRegions
                    /\ task'[s].regions = <<"us-east-1", "ap-south-1">>
              /\ task[s].regions # <<>> => task'[s].regions = task[s].regions]_vars

\* a scan created without a region list is completed over the default list after
\* the one failure of the behaviour
C20_Witness ==
    \E s \in Range(ScanIds) :
        /\ task[s].regions_none
        /\ faults = 0
        /\ Observed(s) # NoItem
        /\ Observed(s).status = "completed"
        /\ Observed(s).regions_scanned = DefaultRegions

IsPrefix(p, q) == Len(p) <= Len(q) /\ \A i \in DOMAIN p : p[i] = q[i]

\* C21: the regions of a run are processed in the order of its list, one iteration
\* (scan, then progress write) after the other, and the regions_scanned a reader is
\* shown is a prefix of that list
C21_RegionsInOrder ==
    \A s \in Range(ScanIds) :
        LET t == task[s]
            rec == Observed(s)
        IN /\ t.idx <= Len(t.regions)
           /\ \A i \in DOMAIN t.all_results :
                 \E j \in 1..(t.idx + 1) : j <= Len(t.regions) /\ t.regions[j] = t.all_results[i][1]
           /\ rec # NoItem => IsPrefix(rec.regions_scanned, t.regions)

\* C22: while the record a reader is shown is pending, its run has not gone beyond
\* the write of running (or has left through the except clause), and the record has
\* progress 0, no results and no regions_scanned
C22_RunningBeforeWork ==
    \A s \in Range(ScanIds) :
        LET t == task[s]
            rec == Observed(s)
        IN (rec # NoItem /\ rec.status = "pending") =>
              /\ t.pc \in {"start", "except", "handled", "crashed"}
              /\ t.credential = NoItem /\ t.all_results = <<>>
              /\ rec.progress = 0
              /\ rec.results = <<>>
              /\ rec.regions_scanned = <<>>

\* the executive summary is asked for with the mapping of all six pillars
SynthesisAfterJoin ==
    \A failing \in SUBSET Range(Pillars), summary_fails \in BOOLEAN :
        LET assessment == comprehensive_assessment(<<>>, failing, summary_fails)
        IN /\ Len(assessment.pillar_assessments) = Len(Pillars)
           /\ assessment.executive_summary =
                  _generate_executive_summary(assessment.pillar_assessments, <<>>,
                                              summary_fails)

RenderedFromCompleted(u, s, query_fails, reply) ==
    LET rec == Observed(s)
        owned == rec # NoItem /\ rec.user_id = u
    IN /\ reply.status_code = HttpOk =>
             /\ owned
             /\ rec.status = "completed"
             /\ rec.progress = DoneProgress
             /\ rec.ai_recommendations # <<>>
             /\ reply.body = ScanDetail(rec)
       /\ (owned /\ rec.status \in {"pending", "running", "failed"}) =>
             /\ reply.status_code = IF query_fails THEN HttpNotFound ELSE HttpBadRequest
             /\ reply.body = NoItem

\* C25: in every state a PDF or Excel download is rendered only for the owner of a
\* scan whose record is completed, at progress 100 and with ai_recommendations; for
\* an owned scan that is pending, running or failed it is answered 400 with nothing
\* rendered
C25_ReportsFromCompleted ==
    \A u \in Users, s \in RequestIds, q \in BOOLEAN :
        /\ RenderedFromCompleted(u, s, q, download_pdf_report(table, u, s, q).reply)
        /\ RenderedFromCompleted(u, s, q, download_excel_report(table, u, s, q).reply)
        /\ download_pdf_report(table, u, s, q).table = table
        /\ download_excel_report(table, u, s, q).table = table

\* both reports of a completed scan are rendered for its owner
C25_Witness ==
    \E s \in Range(ScanIds), u \in Users :
        /\ download_pdf_report(table, u, s, FALSE).reply.status_code = HttpOk
        /\ download_excel_report(table, u, s, FALSE).reply.status_code = HttpOk
        /\ download_pdf_report(table, u, s, FALSE).reply.body.progress = DoneProgress

\* C26: once the item of a scan that was created is gone from the table, no later
\* step stores an item under its primary key again
C26_DeletionIsFinal ==
    [][\A s \in Range(ScanIds), u \in Users :
          LET key == <<UserPK(u), ScanSK(s)>>
          IN (s \in issued /\ key \notin DOMAIN table) => key \notin DOMAIN table']_vars

Returned(s) == task[s].pc \in {"done", "handled"}

C28_LostWriteNotStuck ==
    \A s \in Range(ScanIds) :
        (Returned(s) /\ Observed(s) # NoItem) => Observed(s).status \notin {"pending", "running"}

\* C29: a step of a run writes only the item under its own (user_id, scan_id) and
\* leaves every other task as it was, and the record of a scan shows, at every
\* point of its run, what that run alone has computed so far
OwnKey(s) == <<UserPK(task[s].user_id), ScanSK(s)>>

RunStep(s) == task[s].pc # "idle" /\ task'[s] # task[s]

\* status, progress and payload of the record as the run of s alone leaves them
OwnStatus(t) ==
    CASE t.pc = "start" -> "pending"
      [] t.pc = "done" -> "completed"
      [] t.pc = "handled" -> "failed"
      [] OTHER -> "running"

OwnProgress(t) ==
    CASE t.pc = "loop" -> scan_progress(t.idx, Len(t.regions))
      [] t.pc \in {"assess", "complete"} -> AssessProgress
      [] t.pc = "done" -> DoneProgress
      [] OTHER -> 0

ShowsOwnRun(rec, t) ==
    /\ rec.status = OwnStatus(t)
    /\ rec.progress = OwnProgress(t)
    /\ rec.results = t.all_results
    /\ rec.regions_scanned = DictKeys(t.all_results)
    /\ rec.ai_recommendations = (IF t.pc = "done" THEN t.ai_recommendations ELSE <<>>)
    /\ rec.error_message = (IF t.pc = "handled" THEN t.e ELSE "")
    /\ rec.user_id = t.user_id /\ rec.credential_id = t.credential_id

C29_RunsDoNotInterfere ==
    /\ [](\A s \in Range(ScanIds) :
            (task[s].pc # "idle" /\ Observed(s) # NoItem) => ShowsOwnRun(Observed(s), task[s]))
    /\ [][\A s \in Range(ScanIds) :
            RunStep(s) =>
               /\ \A o \in Range(ScanIds) \ {s} : task'[o] = task[o]
               /\ \A k \in (DOMAIN table \cup DOMAIN table') \ {OwnKey(s)} :
                     k \in DOMAIN table /\ k \in DOMAIN table' /\ table'[k] = table[k]]_vars

\* two runs in flight at once: one has written its region, the other has finished
C29_Witness ==
    \E a, b \in Range(ScanIds) :
        /\ a # b
        /\ task[a].pc = "assess" /\ task[b].pc = "done"
        /\ Observed(a) # NoItem /\ Observed(b) # NoItem
        /\ Observed(a).progress = AssessProgress /\ Observed(b).status = "completed"
        /\ Observed(a).results # <<>> /\ Observed(b).results # <<>>

\* C30: a missing and an empty caller list are both replaced by the enumeration, a
\* non-empty caller list is kept as it is, and a run whose resolved list is empty
\* scans no region, writes no per-region progress and, no call failing, ends
\* completed at 100 with empty results
Resolved(s) == task[s].pc \in {"loop", "assess", "complete", "done"}

EmptyRun(s) == Resolved(s) /\ task[s].regions = <<>>

C30_RegionResolution ==
    /\ [](/\ \A n \in BOOLEAN, e \in EnumeratedLists, f \in BOOLEAN :
                /\ resolve_regions(n, <<>>, e, f) = get_all_regions(e, f)
                /\ \A r \in RegionLists \ {<<>>} : resolve_regions(FALSE, r, e, f) = r
          /\ \A s \in Range(ScanIds) :
                EmptyRun(s) =>
                   /\ task[s].all_results = <<>> /\ task[s].idx = 0
                   /\ Observed(s) # NoItem =>
                         /\ Observed(s).results = <<>>
                         /\ Observed(s).regions_scanned = <<>>
                         /\ Observed(s).progress \in {0, AssessProgress, DoneProgress}
                         /\ (task[s].pc = "done" /\ faults = MaxFaults) =>
                               /\ Observed(s).status = "completed"
                               /\ Observed(s).progress = DoneProgress
                               /\ Observed(s).ai_recommendations # <<>>)
    /\ [][\A s \in Range(ScanIds) :
            (task[s].pc = "resolve" /\ task'[s].pc = "loop") =>
               /\ task[s].regions # <<>> => task'[s].regions = task[s].regions
               /\ task[s].regions = <<>> =>
                     task'[s].regions \in EnumeratedLists \cup {DefaultRegions}]_vars

\* a run that enumerated, found no region and completed
C30_Witness ==
    \E s \in Range(ScanIds) :
        /\ task[s].pc = "done" /\ task[s].regions = <<>> /\ ~task[s].regions_none
        /\ faults = MaxFaults
        /\ Observed(s) # NoItem
        /\ Observed(s).status = "completed" /\ Observed(s).results = <<>>

====
